---------------------------- MODULE Spec2Model ----------------------------
(***************************************************************************)
(* BDO marketplace price monitor: the tracked-item store (FileStorage),    *)
(* the periodic price check (checkPrices / startPriceMonitor), the remote  *)
(* price lookup (getItemInfo) and the item-management entry points         *)
(* (POST /api/items, DELETE /api/items/:id, POST /api/check-prices).       *)
(*                                                                         *)
(* JavaScript runs one handler at a time; a handler gives up control only  *)
(* where it awaits the network or a timer.  Every action below is          *)
(* one such uninterrupted stretch of a handler.                            *)
(***************************************************************************)
EXTENDS Integers, Sequences, FiniteSets, TLC

(***************************************************************************)
(* Bounds of the model.                                                    *)
(***************************************************************************)
MaxPrice == 2        \* fetched and stored prices range over 0..MaxPrice
MaxStock == 1        \* fetched stock ranges over 1..MaxStock
MaxFilePrice == 1    \* prices in the files found at start range over 0..MaxFilePrice
MaxPasses == 2       \* passes started in one run of the program
MaxRequests == 2     \* item-management requests served in one run
MaxCalls == 2        \* direct calls of the store's methods in one run
MaxClock == 1        \* Date.now() ranges over 0..MaxClock
MaxWriteFails == 1   \* file writes that may fail in one run
MaxTimers == 2       \* interval timers armed at one time
MaxHttp == 3         \* HTTP requests to the auth and protected routes in one run
MaxLogins == 6       \* login requests within one fifteen-minute window

Ids == {1, 2}        \* item identifiers the requests and files use
Sids == {0, 1}       \* variant identifiers the requests and files use
SoldTimes == {7}     \* lastSoldTime values the remote reports

Null == [null |-> TRUE]      \* JavaScript null / undefined as a value

(***************************************************************************)
(* A JavaScript Map: entries in insertion order, at most one per key.      *)
(***************************************************************************)
EmptyMap == << >>

MapIndex(m, k) ==
    IF \E i \in 1..Len(m) : m[i].key = k
    THEN CHOOSE i \in 1..Len(m) : m[i].key = k
    ELSE 0

MapHas(m, k) == MapIndex(m, k) # 0

MapGet(m, k) == IF MapHas(m, k) THEN m[MapIndex(m, k)].val ELSE Null

\* Map.prototype.set: an existing key keeps its place, a new one goes last.
MapSet(m, k, v) ==
    IF MapHas(m, k)
    THEN [m EXCEPT ![MapIndex(m, k)] = [key |-> k, val |-> v]]
    ELSE Append(m, [key |-> k, val |-> v])

\* Map.prototype.delete
MapDelete(m, k) == SelectSeq(m, LAMBDA e : e.key # k)

\* Array.from(map.values())
MapValues(m) == [i \in 1..Len(m) |-> m[i].val]

MapKeys(m) == {m[i].key : i \in 1..Len(m)}

(***************************************************************************)
(* FileStorage (server/storage.ts).                                        *)
(***************************************************************************)
\* The region argument the entry points leave out: routes.ts and the bot call
\* the store without a region, so the parameter is undefined at run time and
\* the template string of getFilePath prints it as "undefined".
NoRegion == "undefined"

LoadedRegions == <<"eu", "na">>

getKey(id, sid) == ToString(id) \o "-" \o ToString(sid)

NoFile == [kind |-> "none"]
CorruptFile == [kind |-> "corrupt"]

\* JSON.stringify(items, null, 2) written by fs.writeFileSync
JsonFile(items) == [kind |-> "json", items |-> items]

\* items.forEach(item => itemMap.set(getKey(item.id, item.sid), item))
RECURSIVE FillMap(_, _)
FillMap(m, items) ==
    IF items = << >> THEN m
    ELSE FillMap(MapSet(m, getKey(Head(items).id, Head(items).sid), Head(items)),
                 Tail(items))

\* loadFromFile that keeps every record of the file, one entry each.
loadFromFileEveryRecord(file) ==
    IF file.kind = "json"
    THEN [i \in 1..Len(file.items) |->
            [key |-> getKey(file.items[i].id, file.items[i].sid), val |-> file.items[i]]]
    ELSE EmptyMap

\* loadFromFile: a missing or unreadable file gives the empty map.
loadFromFile(file) ==
    IF file.kind = "json" THEN FillMap(EmptyMap, file.items) ELSE EmptyMap

\* saveToFile that writes nothing.
saveToFileSkipped(ri, fs, region, wok) == fs

\* saveToFile: the region's values, or [] when the region has no map; a
\* failed write is caught and leaves the file as it was.
saveToFile(ri, fs, region, wok) ==
    IF wok
    THEN [fs EXCEPT ![region] =
            JsonFile(IF region \in DOMAIN ri THEN MapValues(ri[region]) ELSE << >>)]
    ELSE fs

\* regionItems.set(region, items)
SetRegion(ri, region, m) ==
    [r \in DOMAIN ri \cup {region} |-> IF r = region THEN m ELSE ri[r]]

getTrackedItems(ri, region) ==
    IF region \in DOMAIN ri THEN MapValues(ri[region]) ELSE << >>

getTrackedItem(ri, region, id, sid) ==
    IF region \in DOMAIN ri THEN MapGet(ri[region], getKey(id, sid)) ELSE Null

\* addTrackedItem: no check for an existing key; Map.set replaces it.
addTrackedItem(ri, fs, item, region, now, wok) ==
    LET trackedItem == [id |-> item.id, sid |-> item.sid, name |-> item.name,
                        lastPrice |-> item.lastPrice, lastStock |-> item.lastStock,
                        lastSoldTime |-> item.lastSoldTime, addedAt |-> now]
        items == IF region \in DOMAIN ri THEN ri[region] ELSE EmptyMap
        ri2 == SetRegion(ri, region, MapSet(items, getKey(item.id, item.sid), trackedItem))
    IN  [ri |-> ri2, fs |-> saveToFile(ri2, fs, region, wok), ret |-> trackedItem]

\* The variant argument left out (sid === undefined).
NoSid == -1

\* removeTrackedItem that tests the sid for truth (`if (sid)`), so that
\* variant 0 counts as left out.
removeTrackedItemFalsySid(ri, fs, id, sid, region, wok) ==
    IF region \notin DOMAIN ri THEN [ri |-> ri, fs |-> fs, ret |-> FALSE]
    ELSE LET items == ri[region]
             given == sid # NoSid /\ sid # 0
             removed == IF given
                        THEN MapHas(items, getKey(id, sid))
                        ELSE \E i \in 1..Len(items) : items[i].val.id = id
             left == IF given
                     THEN MapDelete(items, getKey(id, sid))
                     ELSE SelectSeq(items, LAMBDA e : e.val.id # id)
             ri2 == [ri EXCEPT ![region] = left]
         IN  [ri |-> ri2,
              fs |-> IF removed THEN saveToFile(ri2, fs, region, wok) ELSE fs,
              ret |-> removed]

\* removeTrackedItem: with a sid, that key; without, every record of the id.
removeTrackedItem(ri, fs, id, sid, region, wok) ==
    IF region \notin DOMAIN ri THEN [ri |-> ri, fs |-> fs, ret |-> FALSE]
    ELSE LET items == ri[region]
             removed == IF sid # NoSid
                        THEN MapHas(items, getKey(id, sid))
                        ELSE \E i \in 1..Len(items) : items[i].val.id = id
             left == IF sid # NoSid
                     THEN MapDelete(items, getKey(id, sid))
                     ELSE SelectSeq(items, LAMBDA e : e.val.id # id)
             ri2 == [ri EXCEPT ![region] = left]
         IN  [ri |-> ri2,
              fs |-> IF removed THEN saveToFile(ri2, fs, region, wok) ELSE fs,
              ret |-> removed]

\* updateTrackedItem that creates the record when the key is not there.
updateTrackedItemUpsert(ri, fs, id, sid, updates, region, wok) ==
    IF region \notin DOMAIN ri THEN [ri |-> ri, fs |-> fs, ret |-> Null]
    ELSE LET key == getKey(id, sid)
             existing == MapGet(ri[region], key)
             updated == [id |-> id, sid |-> sid, name |-> updates.name,
                         lastPrice |-> updates.lastPrice,
                         lastStock |-> updates.lastStock,
                         lastSoldTime |-> updates.lastSoldTime,
                         addedAt |-> IF existing = Null THEN 0 ELSE existing.addedAt]
             ri2 == [ri EXCEPT ![region] = MapSet(ri[region], key, updated)]
         IN  [ri |-> ri2, fs |-> saveToFile(ri2, fs, region, wok), ret |-> updated]

\* updateTrackedItem: { ...existing, ...updates } for the four fields the
\* price check passes; absent when the region or the key is not there.
updateTrackedItem(ri, fs, id, sid, updates, region, wok) ==
    IF region \notin DOMAIN ri THEN [ri |-> ri, fs |-> fs, ret |-> Null]
    ELSE LET key == getKey(id, sid)
             existing == MapGet(ri[region], key)
         IN  IF existing = Null THEN [ri |-> ri, fs |-> fs, ret |-> Null]
             ELSE LET updated == [existing EXCEPT !.lastPrice = updates.lastPrice,
                                                  !.lastStock = updates.lastStock,
                                                  !.lastSoldTime = updates.lastSoldTime,
                                                  !.name = updates.name]
                      ri2 == [ri EXCEPT ![region] = MapSet(ri[region], key, updated)]
                  IN  [ri |-> ri2, fs |-> saveToFile(ri2, fs, region, wok),
                       ret |-> updated]


(***************************************************************************)
(* The remote price source (server/bdo-api.ts).                            *)
(***************************************************************************)
\* One entry of the marketplace answer for item id.
Entries(id) ==
    [id : {id}, sid : Sids, minEnhance : {0}, name : {"Ore"},
     lastSoldPrice : 0..MaxPrice, currentStock : 1..MaxStock,
     lastSoldTime : SoldTimes]

\* A JSON object with none of an entry's fields, such as {}: a field that is
\* not there reads as 0, "" or NoSid here, which is what `||` and `??` test.
BlankEntry ==
    [id |-> 0, sid |-> NoSid, minEnhance |-> 0, name |-> "",
     lastSoldPrice |-> 0, currentStock |-> 0, lastSoldTime |-> 0]

\* What fetch(url) and response.json() can give for item id: a network
\* error, an HTTP error status or a body that is not JSON ("error"), the
\* body null, an array of entries, a single entry, or some other object.
Responses(id) ==
    {[kind |-> "error"], [kind |-> "null"], [kind |-> "array", data |-> << >>]}
    \cup {[kind |-> "array", data |-> <<e>>] : e \in Entries(id)}
    \cup {[kind |-> "object", data |-> e] : e \in Entries(id) \cup {BlankEntry}}

\* Whether an answer holds an entry of the item or anything else.
Payload(resp) ==
    IF \/ resp.kind = "array" /\ resp.data # << >>
       \/ resp.kind = "object" /\ resp.data # BlankEntry
    THEN "entry" ELSE "other"

\* data.find(item => item.sid === sid || item.minEnhance === sid) || data[0]
FindEntry(data, sid) ==
    IF \E i \in 1..Len(data) : data[i].sid = sid \/ data[i].minEnhance = sid
    THEN data[CHOOSE i \in 1..Len(data) :
                /\ data[i].sid = sid \/ data[i].minEnhance = sid
                /\ \A j \in 1..(i - 1) : ~(data[j].sid = sid \/ data[j].minEnhance = sid)]
    ELSE data[1]

\* getItemInfo(id, sid): the region argument of the price check is not a
\* parameter of this function; the endpoint is that of the configured REGION.
getItemInfo(id, sid, resp) ==
    IF resp.kind \in {"error", "null"} THEN Null
    ELSE IF resp.kind = "array" /\ resp.data = << >> THEN Null
    ELSE LET itemData == IF resp.kind = "array" THEN FindEntry(resp.data, sid)
                         ELSE resp.data
         IN  [id |-> IF itemData.id # 0 THEN itemData.id ELSE id,
              sid |-> IF itemData.sid # NoSid THEN itemData.sid ELSE sid,
              name |-> IF itemData.name # "" THEN itemData.name
                       ELSE "Item " \o ToString(id),
              currentStock |-> itemData.currentStock,
              lastSoldPrice |-> itemData.lastSoldPrice,
              lastSoldTime |-> itemData.lastSoldTime]

(***************************************************************************)
(* The price check (server/price-monitor.ts).                              *)
(***************************************************************************)
\* checkPrices(region = "eu"): every caller leaves the argument out.
DefaultRegion == "eu"

\* PriceAlert without the `oldPrice > 0` test.
PriceAlertNoBaselineTest(item, currentInfo) ==
    LET oldPrice == item.lastPrice
        newPrice == currentInfo.lastSoldPrice
    IN  IF oldPrice # newPrice
        THEN [id |-> item.id, sid |-> item.sid,
              name |-> IF currentInfo.name # "" THEN currentInfo.name ELSE item.name,
              oldPrice |-> oldPrice, newPrice |-> newPrice,
              priceChange |-> IF newPrice > oldPrice THEN "increase" ELSE "decrease",
              stock |-> currentInfo.currentStock,
              lastSoldTime |-> currentInfo.lastSoldTime]
        ELSE Null

\* PriceAlert that is also silent when the fetched price is zero.
PriceAlertNoZeroDrop(item, currentInfo) ==
    LET oldPrice == item.lastPrice
        newPrice == currentInfo.lastSoldPrice
    IN  IF oldPrice # newPrice /\ oldPrice > 0 /\ newPrice > 0
        THEN [id |-> item.id, sid |-> item.sid,
              name |-> IF currentInfo.name # "" THEN currentInfo.name ELSE item.name,
              oldPrice |-> oldPrice, newPrice |-> newPrice,
              priceChange |-> IF newPrice > oldPrice THEN "increase" ELSE "decrease",
              stock |-> currentInfo.currentStock,
              lastSoldTime |-> currentInfo.lastSoldTime]
        ELSE Null

\* Lines 27-43: the alert for a listed item and its fresh snapshot, or Null.
PriceAlert(item, currentInfo) ==
    LET oldPrice == item.lastPrice
        newPrice == currentInfo.lastSoldPrice
    IN  IF oldPrice # newPrice /\ oldPrice > 0
        THEN [id |-> item.id, sid |-> item.sid,
              name |-> IF currentInfo.name # "" THEN currentInfo.name ELSE item.name,
              oldPrice |-> oldPrice, newPrice |-> newPrice,
              priceChange |-> IF newPrice > oldPrice THEN "increase" ELSE "decrease",
              stock |-> currentInfo.currentStock,
              lastSoldTime |-> currentInfo.lastSoldTime]
        ELSE Null

\* PassUpdates that carries the listed stock instead of the fetched one.
PassUpdatesListedStock(item, currentInfo) ==
    [lastPrice |-> currentInfo.lastSoldPrice,
     lastStock |-> item.lastStock,
     lastSoldTime |-> currentInfo.lastSoldTime,
     name |-> IF currentInfo.name # "" THEN currentInfo.name ELSE item.name]

\* Lines 51-56: the fields the pass hands to updateTrackedItem.
PassUpdates(item, currentInfo) ==
    [lastPrice |-> currentInfo.lastSoldPrice,
     lastStock |-> currentInfo.currentStock,
     lastSoldTime |-> currentInfo.lastSoldTime,
     name |-> IF currentInfo.name # "" THEN currentInfo.name ELSE item.name]


(***************************************************************************)
(* The notifier (discord-embeds.ts sendWebhookMessage).                    *)
(***************************************************************************)
\* process.env.DISCORD_WEBHOOK_URL at the time of a call: unset or set.
WebhookUrls == {"", "https://discord.test/hook"}

\* HTTP status codes the channel may answer with.
Statuses == {200, 204, 299, 300, 404, 429, 500}

\* What fetch(webhookUrl, ...) can give: it throws (transport error) or it
\* resolves with a response of some status.
WebhookOutcomes ==
    {[kind |-> "throw"]} \cup {[kind |-> "status", status |-> c] : c \in Statuses}

\* sendWebhookMessage without the try / catch around fetch.
sendWebhookMessageNoCatch(webhookUrl, outcome) ==
    IF webhookUrl = "" THEN [attempted |-> FALSE, ret |-> "false"]
    ELSE IF outcome.kind = "throw" THEN [attempted |-> TRUE, ret |-> "raised"]
    ELSE IF ~(outcome.status >= 200 /\ outcome.status <= 299)
         THEN [attempted |-> TRUE, ret |-> "false"]
    ELSE [attempted |-> TRUE, ret |-> "true"]

\* sendWebhookMessage(embed): whether fetch was called, and what the promise
\* gives: "true", "false", or "raised" for a rejection.  response.ok is a
\* status of 200..299.
sendWebhookMessage(webhookUrl, outcome) ==
    IF webhookUrl = "" THEN [attempted |-> FALSE, ret |-> "false"]
    ELSE IF outcome.kind = "throw" THEN [attempted |-> TRUE, ret |-> "false"]
    ELSE IF ~(outcome.status >= 200 /\ outcome.status <= 299)
         THEN [attempted |-> TRUE, ret |-> "false"]
    ELSE [attempted |-> TRUE, ret |-> "true"]

\* Everything a call of sendWebhookMessage can give its caller.
DeliveryResults ==
    {sendWebhookMessage(u, o).ret : u \in WebhookUrls, o \in WebhookOutcomes}

(***************************************************************************)
(* State.                                                                  *)
(***************************************************************************)
VARIABLES
    regionItems,      \* FileStorage.regionItems: region -> Map(key -> TrackedItem)
    files,            \* tracked-items-<region>.json on disk, per region
    monitorInterval,  \* price-monitor.ts: TRUE while the interval timer is armed
    botStarted,       \* bot.ts: startBot has run
    passes,           \* the calls of checkPrices, in the order they started
    requests,         \* the item-management requests, in the order they arrived
    clock,            \* Date.now()
    writeFails,       \* file writes that have failed so far
    lastCall,         \* the latest direct call of a FileStorage method, with its result
    timers,           \* price-monitor.ts: the interval timers that are armed (their number)
    sessions,         \* routes.ts: req.session.authenticated, per session
    lastHttp,         \* the latest request to an auth or protected route, with its answer
    delivery,         \* the latest call of sendWebhookMessage by a route, with its result
    env               \* routes.ts: VALID_USERNAME and VALID_PASSWORD, read at load

\* The state of the HTTP layer.
webVars == <<sessions, lastHttp, delivery, env>>

vars == <<regionItems, files, monitorInterval, botStarted, passes, requests,
          clock, writeFails, lastCall, timers, sessions, lastHttp, delivery, env>>

\* Records a tracked-items file may hold when the program starts.
FileItems ==
    [id : {1}, sid : Sids, name : {"Old"}, lastPrice : 0..MaxFilePrice,
     lastStock : {0}, lastSoldTime : {0}, addedAt : {0}]

\* The tracked-items-eu.json the program may find: none, an unreadable one,
\* or a JSON array of up to two records, variant 0 first (a hand-edited file
\* may repeat a pair).
StartFiles ==
    {NoFile, CorruptFile, JsonFile(<< >>)}
    \cup {JsonFile(<<a>>) : a \in FileItems}
    \cup {JsonFile(<<a, b>>) : a \in {x \in FileItems : x.sid = 0}, b \in FileItems}

\* loadAllRegions: ["eu", "na"].forEach(loadFromFile)
loadAllRegions(fs) ==
    [r \in {LoadedRegions[i] : i \in 1..Len(LoadedRegions)} |-> loadFromFile(fs[r])]

\* The browser sessions express-session keeps.
Sessions == {1, 2}

\* BOT_USERNAME and BOT_PASSWORD as configured, and as left unset (`|| ""`).
\* A string of credentials is the sequence of its characters.
ConfiguredEnv == [username |-> <<"a">>, password |-> <<"p">>]
UnsetEnv == [username |-> << >>, password |-> << >>]

NoHttp == [n |-> 0, route |-> "none", session |-> 0, status |-> 0,
           username |-> << >>, password |-> << >>]
NoDelivery == [url |-> "", outcome |-> [kind |-> "none"], attempted |-> FALSE,
               ret |-> "none"]

\* The state once the modules are loaded: `storage = new FileStorage()` has
\* read the files, no timer is armed, the bot has not started, no session is
\* authenticated and the credentials are e.
Loaded(e) ==
    /\ files \in [{"eu", "na", NoRegion} -> StartFiles]
    /\ files["na"] = NoFile
    /\ files[NoRegion] = NoFile
    /\ regionItems = loadAllRegions(files)
    /\ monitorInterval = FALSE
    /\ botStarted = FALSE
    /\ passes = << >>
    /\ requests = << >>
    /\ clock = 0
    /\ writeFails = 0
    /\ lastCall = [n |-> 0, op |-> "none", region |-> "", id |-> 0, sid |-> 0, ret |-> Null]
    /\ timers = 0
    /\ sessions = [s \in Sessions |-> FALSE]
    /\ lastHttp = NoHttp
    /\ delivery = NoDelivery
    /\ env = e

Init == Loaded(ConfiguredEnv)

\* Whether the next file write succeeds: the environment's choice.
WriteOutcomes == IF writeFails < MaxWriteFails THEN {TRUE, FALSE} ELSE {TRUE}

(***************************************************************************)
(* checkPrices: one pass.                                                  *)
(*   pc = "fetch"  : awaiting getItemInfo for items[idx]                   *)
(*   pc = "notify" : awaiting sendWebhookMessage for items[idx]            *)
(*   pc = "sleep"  : awaiting the 500 ms pacing timer after items[idx]     *)
(*   pc = "done"   : the promise of checkPrices has resolved               *)
(* info and alert are the loop body's currentInfo and alert.  The other    *)
(* fields record what the pass has done: fetches, the indices getItemInfo  *)
(* was called for, in order; owed, the indices whose fetch gave a snapshot *)
(* and whose updateTrackedItem call has not been made; sent, the result of *)
(* sendWebhookMessage for items[idx], "none" until it has come back; got,  *)
(* whether the latest answer of the remote held an entry of the item       *)
(* ("entry"), did not ("other"), or none has come yet ("none").            *)
(***************************************************************************)
\* Lines 9-18: list the region's items; with none, return at once, else ask
\* the remote for the first.
NewPass(items, trigger) ==
    [trigger |-> trigger, items |-> items, info |-> Null, alert |-> Null,
     sent |-> "none", owed |-> {}, got |-> "none",
     idx |-> IF items = << >> THEN 0 ELSE 1,
     pc |-> IF items = << >> THEN "done" ELSE "fetch",
     fetches |-> IF items = << >> THEN << >> ELSE <<1>>]

\* NextItem that ends the pass when the item just handled had no snapshot.
NextItemStopOnFailure(p) ==
    IF p.idx < Len(p.items) /\ p.pc # "fetch"
    THEN [p EXCEPT !.idx = p.idx + 1, !.pc = "fetch", !.info = Null, !.alert = Null,
                   !.sent = "none", !.fetches = Append(p.fetches, p.idx + 1)]
    ELSE [p EXCEPT !.pc = "done", !.info = Null, !.alert = Null, !.sent = "none"]

\* The for loop moves to the next item, or the pass ends.
NextItem(p) ==
    IF p.idx < Len(p.items)
    THEN [p EXCEPT !.idx = p.idx + 1, !.pc = "fetch", !.info = Null, !.alert = Null,
                   !.sent = "none", !.fetches = Append(p.fetches, p.idx + 1)]
    ELSE [p EXCEPT !.pc = "done", !.info = Null, !.alert = Null, !.sent = "none"]

StartPass(trigger) ==
    /\ Len(passes) < MaxPasses
    /\ passes' = Append(passes, NewPass(getTrackedItems(regionItems, DefaultRegion), trigger))

\* UpdateAndSleep that goes to the pacing sleep without the update.
UpdateAndSleepNoUpdate(n, p) ==
    /\ passes' = [passes EXCEPT ![n] = [p EXCEPT !.pc = "sleep"]]
    /\ UNCHANGED <<regionItems, files, writeFails>>

\* Lines 51-58: updateTrackedItem with the fresh snapshot, then the pacing
\* sleep.  p is pass n as it stands when the update is called.
UpdateAndSleep(n, p) ==
    LET item == p.items[p.idx]
        tracked == getTrackedItem(regionItems, DefaultRegion, item.id, item.sid) # Null
    IN  \E wok \in (IF tracked THEN WriteOutcomes ELSE {TRUE}) :
          LET r == updateTrackedItem(regionItems, files, item.id, item.sid,
                                     PassUpdates(item, p.info), DefaultRegion, wok)
          IN  /\ regionItems' = r.ri
              /\ files' = r.fs
              /\ writeFails' = IF wok THEN writeFails ELSE writeFails + 1
              /\ passes' = [passes EXCEPT ![n] =
                    [p EXCEPT !.pc = "sleep", !.owed = p.owed \ {p.idx}]]

\* Lines 22-25: no snapshot: log, and `continue` with the next item.
SkipItem(n, p) ==
    /\ passes' = [passes EXCEPT ![n] = NextItem(p)]
    /\ UNCHANGED <<regionItems, files, writeFails>>

\* Lines 20-49: getItemInfo has answered for items[idx].  Without a snapshot
\* the loop continues with the next item; with one, the alert (if any) goes
\* to sendWebhookMessage, and otherwise the update follows at once.
FetchReturn(n) ==
    /\ n \in 1..Len(passes)
    /\ passes[n].pc = "fetch"
    /\ LET item == passes[n].items[passes[n].idx]
       IN  \E resp \in Responses(item.id) :
             LET currentInfo == getItemInfo(item.id, item.sid, resp)
                 p == [passes[n] EXCEPT !.got = Payload(resp)]
             IN  IF currentInfo = Null
                 THEN SkipItem(n, p)
                 ELSE LET alert == PriceAlert(item, currentInfo)
                          q == [p EXCEPT !.info = currentInfo, !.alert = alert,
                                         !.owed = p.owed \cup {p.idx}]
                      IN  IF alert # Null
                          THEN /\ passes' = [passes EXCEPT ![n] =
                                     [q EXCEPT !.pc = "notify"]]
                               /\ UNCHANGED <<regionItems, files, writeFails>>
                          ELSE UpdateAndSleep(n, q)
    /\ UNCHANGED <<monitorInterval, botStarted, requests, clock, lastCall>>
    /\ UNCHANGED <<timers, webVars>>

\* Lines 48-58: sendWebhookMessage has resolved, true or false; its result
\* is not looked at, and the update follows.
NotifyReturn(n) ==
    /\ n \in 1..Len(passes)
    /\ passes[n].pc = "notify"
    /\ \E ok \in DeliveryResults :
         UpdateAndSleep(n, [passes[n] EXCEPT !.sent = ok])
    /\ UNCHANGED <<monitorInterval, botStarted, requests, clock, lastCall>>
    /\ UNCHANGED <<timers, webVars>>

\* Line 58: the 500 ms timer has fired.
SleepReturn(n) ==
    /\ n \in 1..Len(passes)
    /\ passes[n].pc = "sleep"
    /\ passes' = [passes EXCEPT ![n] = NextItem(passes[n])]
    /\ UNCHANGED <<regionItems, files, writeFails, monitorInterval, botStarted,
                   requests, clock, lastCall>>
    /\ UNCHANGED <<timers, webVars>>

(***************************************************************************)
(* The scheduler (price-monitor.ts startPriceMonitor, bot.ts startBot) and *)
(* the manual trigger (routes.ts POST /api/check-prices).                  *)
(***************************************************************************)
\* startPriceMonitor (lines 68-78): checkPrices() is called without being
\* awaited, and setInterval arms a timer whose handle replaces whatever
\* monitorInterval held.
startPriceMonitor ==
    /\ timers < MaxTimers
    /\ StartPass("start")
    /\ timers' = timers + 1
    /\ monitorInterval' = TRUE

\* stopPriceMonitor that also ends the passes in progress.
stopPriceMonitorAbort ==
    /\ monitorInterval' = FALSE
    /\ timers' = IF monitorInterval THEN timers - 1 ELSE timers
    /\ passes' = [n \in 1..Len(passes) |->
                    [passes[n] EXCEPT !.pc = "done", !.info = Null, !.alert = Null,
                                      !.sent = "none"]]

\* stopPriceMonitor (lines 80-86): clearInterval of the timer monitorInterval
\* holds, if it holds one, and nothing else: no pass is touched.
stopPriceMonitor ==
    /\ monitorInterval' = FALSE
    /\ timers' = IF monitorInterval THEN timers - 1 ELSE timers
    /\ passes' = passes

\* startBot, called once by registerRoutes: startPriceMonitor calls
\* checkPrices() without awaiting it and arms the interval timer.
StartBot ==
    /\ ~botStarted
    /\ startPriceMonitor
    /\ botStarted' = TRUE
    /\ UNCHANGED <<regionItems, files, writeFails, requests, clock, lastCall>>
    /\ UNCHANGED webVars

\* The setInterval callback of an armed timer: checkPrices(), whatever the
\* earlier passes do.
TimerFire ==
    /\ timers > 0
    /\ StartPass("timer")
    /\ UNCHANGED <<regionItems, files, writeFails, monitorInterval, botStarted,
                   requests, clock, lastCall>>
    /\ UNCHANGED <<timers, webVars>>

\* The handler of POST /api/check-prices: await checkPrices().
CheckHandler ==
    /\ botStarted
    /\ StartPass("manual")
    /\ UNCHANGED <<regionItems, files, writeFails, monitorInterval, botStarted,
                   requests, clock, lastCall, timers>>

\* POST /api/check-prices by an authenticated session.
CheckNow == CheckHandler /\ UNCHANGED webVars

\* startPriceMonitor and stopPriceMonitor are exported: any module may call
\* them, any number of times, in any order.
StartMonitor ==
    /\ startPriceMonitor
    /\ UNCHANGED <<regionItems, files, writeFails, botStarted, requests, clock,
                   lastCall>>
    /\ UNCHANGED webVars

StopMonitor ==
    /\ stopPriceMonitor
    /\ UNCHANGED <<regionItems, files, writeFails, botStarted, requests, clock,
                   lastCall>>
    /\ UNCHANGED webVars

MonitorNext ==
    \/ StartBot
    \/ TimerFire
    \/ CheckNow
    \/ \E n \in 1..MaxPasses : FetchReturn(n)
    \/ \E n \in 1..MaxPasses : NotifyReturn(n)
    \/ \E n \in 1..MaxPasses : SleepReturn(n)

(***************************************************************************)
(* Item management (routes.ts POST /api/items and DELETE /api/items/:id,   *)
(* bot.ts !add and !remove: the two add handlers run the same three steps, *)
(* the two remove handlers the same call).  Neither passes a region to the *)
(* store.                                                                  *)
(*   pc = "fetch" : an add awaiting getItemInfo                            *)
(*   pc = "done"  : answered; status is the HTTP status (or its bot reply) *)
(* fetched is what getItemInfo gave an add (Null: nothing, or not yet);    *)
(* supplied is the item an add handed to addTrackedItem; touched turns     *)
(* TRUE when a later remove takes that pair out of the store.              *)
(***************************************************************************)
Request(kind, id, sid, pc, status) ==
    [kind |-> kind, id |-> id, sid |-> sid, pc |-> pc,
     status |-> status, fetched |-> Null, supplied |-> Null, touched |-> FALSE]

\* InsertItem that leaves the snapshot out.
InsertItemNoSnapshot(itemInfo, sid) ==
    [id |-> itemInfo.id, sid |-> sid, name |-> itemInfo.name,
     lastPrice |-> 0, lastStock |-> 0, lastSoldTime |-> 0]

\* routes.ts 165-172, bot.ts 52-59: the item handed to addTrackedItem: the
\* remote's id, name and snapshot, and the requested sid.
InsertItem(itemInfo, sid) ==
    [id |-> itemInfo.id, sid |-> sid, name |-> itemInfo.name,
     lastPrice |-> itemInfo.lastSoldPrice,
     lastStock |-> itemInfo.currentStock,
     lastSoldTime |-> itemInfo.lastSoldTime]

\* routes.ts 153-160, bot.ts 38-45: refuse a tracked pair, else ask the remote.
AddHandler(id, sid) ==
    /\ botStarted
    /\ Len(requests) < MaxRequests
    /\ requests' = Append(requests,
          IF getTrackedItem(regionItems, NoRegion, id, sid) # Null
          THEN Request("add", id, sid, "done", 409)
          ELSE Request("add", id, sid, "fetch", 0))
    /\ UNCHANGED <<regionItems, files, writeFails, monitorInterval, botStarted,
                   passes, clock, lastCall, timers>>

\* An add by the bot's !add or by an authenticated session.
AddArrive(id, sid) == AddHandler(id, sid) /\ UNCHANGED webVars

\* Date.now() at this call: time may have moved on since the last reading.
Nows == {t \in clock..(clock + 1) : t <= MaxClock}

\* routes.ts 160-174, bot.ts 45-62: getItemInfo has answered.  Without a
\* snapshot the request fails; with one, the item is added under the remote's
\* id and the requested sid.
AddFetchReturn(i) ==
    /\ i \in 1..Len(requests)
    /\ requests[i].kind = "add"
    /\ requests[i].pc = "fetch"
    /\ LET q == requests[i]
       IN  \E resp \in Responses(q.id) :
             LET itemInfo == getItemInfo(q.id, q.sid, resp)
             IN  IF itemInfo = Null
                 THEN /\ requests' = [requests EXCEPT ![i] =
                            [q EXCEPT !.pc = "done", !.status = 404]]
                      /\ UNCHANGED <<regionItems, files, writeFails, clock>>
                 ELSE \E now \in Nows, wok \in WriteOutcomes :
                        LET item == InsertItem(itemInfo, q.sid)
                            r == addTrackedItem(regionItems, files, item, NoRegion, now, wok)
                        IN  /\ regionItems' = r.ri
                            /\ files' = r.fs
                            /\ clock' = now
                            /\ writeFails' = IF wok THEN writeFails ELSE writeFails + 1
                            /\ requests' = [requests EXCEPT ![i] =
                                  [q EXCEPT !.pc = "done", !.status = 201,
                                            !.fetched = itemInfo,
                                            !.supplied = item]]
    /\ UNCHANGED <<monitorInterval, botStarted, passes, lastCall>>
    /\ UNCHANGED <<timers, webVars>>

\* Whether a remove of (id, sid), or of every variant of id when sid = NoSid,
\* is a remove of request q's pair.
SamePair(q, id, sid) == q.id = id /\ (sid = NoSid \/ q.sid = sid)

\* routes.ts 181-206, bot.ts 91-100: removeTrackedItem(id, sid), sid = NoSid
\* when the variant is left out; 204 when something was removed, else 404.
RemoveHandler(id, sid) ==
    /\ botStarted
    /\ Len(requests) < MaxRequests
    /\ LET tracked == removeTrackedItem(regionItems, files, id, sid, NoRegion, TRUE).ret
       IN  \E wok \in (IF tracked THEN WriteOutcomes ELSE {TRUE}) :
             LET r == removeTrackedItem(regionItems, files, id, sid, NoRegion, wok)
             IN  /\ regionItems' = r.ri
                 /\ files' = r.fs
                 /\ writeFails' = IF wok THEN writeFails ELSE writeFails + 1
                 /\ requests' = Append(
                       [j \in 1..Len(requests) |->
                           IF r.ret /\ requests[j].pc = "done"
                              /\ SamePair(requests[j], id, sid)
                           THEN [requests[j] EXCEPT !.touched = TRUE]
                           ELSE requests[j]],
                       Request("remove", id, sid, "done",
                               IF r.ret THEN 204 ELSE 404))
    /\ UNCHANGED <<monitorInterval, botStarted, passes, clock, lastCall, timers>>

\* A remove by the bot's !remove or by an authenticated session.
RemoveArrive(id, sid) == RemoveHandler(id, sid) /\ UNCHANGED webVars

ItemsNext ==
    \/ \E id \in Ids, sid \in Sids : AddArrive(id, sid)
    \/ \E i \in 1..MaxRequests : AddFetchReturn(i)
    \/ \E id \in Ids, sid \in Sids \cup {NoSid} : RemoveArrive(id, sid)

(***************************************************************************)
(* The HTTP layer (routes.ts): login, logout and the routes behind         *)
(* requireAuth.  lastHttp keeps the latest request and its status; status  *)
(* 0 stands for next(): the route's handler answers.                       *)
(***************************************************************************)
\* String.prototype.trim: white space off both ends.
RECURSIVE TrimStart(_)
TrimStart(str) ==
    IF str # << >> /\ Head(str) = " " THEN TrimStart(Tail(str)) ELSE str

RECURSIVE TrimEnd(_)
TrimEnd(str) ==
    IF str # << >> /\ str[Len(str)] = " "
    THEN TrimEnd(SubSeq(str, 1, Len(str) - 1)) ELSE str

Trim(str) == TrimEnd(TrimStart(str))

\* User names and passwords a client may send.
Usernames == {<< >>, <<" ">>, <<"a">>, <<" ", "a", " ">>, <<"b">>}
Passwords == {<< >>, <<" ">>, <<"p">>, <<"p", " ">>, <<"q">>}

Http(route, session, status) ==
    [n |-> lastHttp.n + 1, route |-> route, session |-> session, status |-> status,
     username |-> << >>, password |-> << >>]

\* The routes behind app.use(<path>, requireAuth).
ProtectedRoutes ==
    {"GET /api/status", "GET /api/items", "POST /api/items",
     "DELETE /api/items/:id", "POST /api/check-prices", "POST /api/test-alert"}

\* requireAuth that lets every request through.
requireAuthOpen(authenticated) == TRUE

\* requireAuth: next() iff req.session.authenticated.
requireAuth(authenticated) == authenticated

\* POST /api/auth/login: loginSchema wants both strings non-empty; the
\* trimmed strings are compared with the configured ones.
LoginHandler(s, username, password) ==
    /\ LET status == IF Len(username) < 1 \/ Len(password) < 1 THEN 400
                     ELSE IF /\ Trim(username) = env.username
                             /\ Trim(password) = env.password
                          THEN 200 ELSE 401
       IN  /\ sessions' = IF status = 200 THEN [sessions EXCEPT ![s] = TRUE]
                           ELSE sessions
           /\ lastHttp' = [Http("POST /api/auth/login", s, status)
                               EXCEPT !.username = username, !.password = password]
    /\ UNCHANGED <<regionItems, files, monitorInterval, botStarted, passes, requests,
                   clock, writeFails, lastCall, timers, delivery, env>>

Login(s, username, password) ==
    /\ lastHttp.n < MaxHttp
    /\ LoginHandler(s, username, password)

\* POST /api/auth/logout: req.session.destroy.
Logout(s) ==
    /\ lastHttp.n < MaxHttp
    /\ sessions' = [sessions EXCEPT ![s] = FALSE]
    /\ lastHttp' = Http("POST /api/auth/logout", s, 200)
    /\ UNCHANGED <<regionItems, files, monitorInterval, botStarted, passes, requests,
                   clock, writeFails, lastCall, timers, delivery, env>>

\* requireAuth's else branch: 401, and the handler is not called.
Unauthorized(route, s) ==
    /\ lastHttp' = Http(route, s, 401)
    /\ UNCHANGED <<regionItems, files, monitorInterval, botStarted, passes, requests,
                   clock, writeFails, lastCall, timers, sessions, delivery, env>>

\* GET /api/status and GET /api/items: the handlers only read.
HttpRead(s, route) ==
    /\ lastHttp.n < MaxHttp
    /\ IF requireAuth(sessions[s])
       THEN /\ lastHttp' = Http(route, s, 200)
            /\ UNCHANGED <<regionItems, files, monitorInterval, botStarted, passes,
                           requests, clock, writeFails, lastCall, timers, sessions,
                           delivery, env>>
       ELSE Unauthorized(route, s)

\* POST /api/items
HttpAdd(s, id, sid) ==
    /\ lastHttp.n < MaxHttp
    /\ IF requireAuth(sessions[s])
       THEN /\ AddHandler(id, sid)
            /\ lastHttp' = Http("POST /api/items", s, 0)
            /\ UNCHANGED <<sessions, delivery, env>>
       ELSE Unauthorized("POST /api/items", s)

\* DELETE /api/items/:id
HttpRemove(s, id, sid) ==
    /\ lastHttp.n < MaxHttp
    /\ IF requireAuth(sessions[s])
       THEN /\ RemoveHandler(id, sid)
            /\ lastHttp' = Http("DELETE /api/items/:id", s, 0)
            /\ UNCHANGED <<sessions, delivery, env>>
       ELSE Unauthorized("DELETE /api/items/:id", s)

\* POST /api/check-prices
HttpCheck(s) ==
    /\ lastHttp.n < MaxHttp
    /\ IF requireAuth(sessions[s])
       THEN /\ CheckHandler
            /\ lastHttp' = Http("POST /api/check-prices", s, 0)
            /\ UNCHANGED <<sessions, delivery, env>>
       ELSE Unauthorized("POST /api/check-prices", s)

\* POST /api/test-alert: sendWebhookMessage(createTestAlertEmbed()), 200 on
\* true and 500 otherwise.
HttpTestAlert(s) ==
    /\ lastHttp.n < MaxHttp
    /\ IF requireAuth(sessions[s])
       THEN \E url \in WebhookUrls, outcome \in WebhookOutcomes :
              LET r == sendWebhookMessage(url, outcome)
              IN  /\ delivery' = [url |-> url, outcome |-> outcome,
                                  attempted |-> r.attempted, ret |-> r.ret]
                  /\ lastHttp' = Http("POST /api/test-alert", s,
                                      IF r.ret = "true" THEN 200 ELSE 500)
                  /\ UNCHANGED <<regionItems, files, monitorInterval, botStarted,
                                 passes, requests, clock, writeFails, lastCall,
                                 timers, sessions, env>>
       ELSE Unauthorized("POST /api/test-alert", s)

WebNext ==
    \/ StartBot
    \/ \E s \in Sessions, u \in Usernames, pw \in Passwords : Login(s, u, pw)
    \/ \E s \in Sessions : Logout(s)
    \/ \E s \in Sessions, route \in {"GET /api/status", "GET /api/items"} :
          HttpRead(s, route)
    \/ \E s \in Sessions, id \in Ids, sid \in Sids : HttpAdd(s, id, sid)
    \/ \E s \in Sessions, id \in Ids, sid \in Sids \cup {NoSid} : HttpRemove(s, id, sid)
    \/ \E s \in Sessions : HttpCheck(s)
    \/ \E s \in Sessions : HttpTestAlert(s)
    \/ \E i \in 1..MaxRequests : AddFetchReturn(i)

(***************************************************************************)
(* FileStorage called directly, as any holder of the exported `storage`    *)
(* may call it: every method, any region.  lastCall keeps the call and     *)
(* what it returned.                                                       *)
(***************************************************************************)
Regions == {"eu"}

\* The item a direct add supplies and the fields a direct update supplies.
ApiItem(id, sid) ==
    [id |-> id, sid |-> sid, name |-> "New", lastPrice |-> MaxPrice,
     lastStock |-> MaxStock, lastSoldTime |-> 7]

Call(op, region, id, sid, ret) ==
    [n |-> lastCall.n + 1, op |-> op, region |-> region, id |-> id, sid |-> sid,
     ret |-> ret]

ApiAdd(region, id, sid) ==
    /\ lastCall.n < MaxCalls
    /\ \E now \in Nows, wok \in WriteOutcomes :
         LET r == addTrackedItem(regionItems, files, ApiItem(id, sid), region, now, wok)
         IN  /\ regionItems' = r.ri
             /\ files' = r.fs
             /\ clock' = now
             /\ writeFails' = IF wok THEN writeFails ELSE writeFails + 1
             /\ lastCall' = Call("add", region, id, sid, r.ret)
    /\ UNCHANGED <<monitorInterval, botStarted, passes, requests>>
    /\ UNCHANGED <<timers, webVars>>

ApiRemove(region, id, sid) ==
    /\ lastCall.n < MaxCalls
    /\ LET tracked == removeTrackedItem(regionItems, files, id, sid, region, TRUE).ret
       IN  \E wok \in (IF tracked THEN WriteOutcomes ELSE {TRUE}) :
             LET r == removeTrackedItem(regionItems, files, id, sid, region, wok)
             IN  /\ regionItems' = r.ri
                 /\ files' = r.fs
                 /\ writeFails' = IF wok THEN writeFails ELSE writeFails + 1
                 /\ lastCall' = Call("remove", region, id, sid, r.ret)
    /\ UNCHANGED <<monitorInterval, botStarted, passes, requests, clock>>
    /\ UNCHANGED <<timers, webVars>>

ApiUpdate(region, id, sid) ==
    /\ lastCall.n < MaxCalls
    /\ LET tracked == getTrackedItem(regionItems, region, id, sid) # Null
       IN  \E wok \in (IF tracked THEN WriteOutcomes ELSE {TRUE}) :
             LET r == updateTrackedItem(regionItems, files, id, sid,
                                        ApiItem(id, sid), region, wok)
             IN  /\ regionItems' = r.ri
                 /\ files' = r.fs
                 /\ writeFails' = IF wok THEN writeFails ELSE writeFails + 1
                 /\ lastCall' = Call("update", region, id, sid, r.ret)
    /\ UNCHANGED <<monitorInterval, botStarted, passes, requests, clock>>
    /\ UNCHANGED <<timers, webVars>>

ApiNext ==
    \/ \E region \in Regions, id \in Ids, sid \in Sids : ApiAdd(region, id, sid)
    \/ \E region \in Regions, id \in Ids, sid \in Sids \cup {NoSid} :
          ApiRemove(region, id, sid)
    \/ \E region \in Regions, id \in Ids, sid \in Sids : ApiUpdate(region, id, sid)

\* One pass, started by startBot.
PassNext ==
    \/ StartBot
    \/ \E n \in 1..MaxPasses : FetchReturn(n)
    \/ \E n \in 1..MaxPasses : NotifyReturn(n)
    \/ \E n \in 1..MaxPasses : SleepReturn(n)

(***************************************************************************)
(* Specifications.                                                         *)
(***************************************************************************)
Next == MonitorNext \/ ItemsNext

\* The whole program.
Spec == Init /\ [][Next]_vars

\* The scheduler and its passes, which read and write region "eu" only.
SpecMonitor == Init /\ [][MonitorNext]_vars

\* The item-management entry points, which read and write the region the
\* missing argument names; the files found at start play no part.
InitItems == Init /\ files["eu"] = NoFile

SpecItems == InitItems /\ [][StartBot \/ ItemsNext]_vars

\* The store under direct calls of its methods.
SpecStore == Init /\ [][ApiNext]_vars

\* One pass of the price check while the store's remove and update are
\* called directly.
StorePassNext ==
    \/ PassNext
    \/ \E region \in Regions, id \in Ids, sid \in Sids \cup {NoSid} :
          ApiRemove(region, id, sid)
    \/ \E region \in Regions, id \in Ids, sid \in Sids : ApiUpdate(region, id, sid)

SpecStorePass == Init /\ [][StorePassNext]_vars

\* The scheduler under direct calls of startPriceMonitor and
\* stopPriceMonitor, over a store that starts with at most one record.
SchedNext ==
    \/ StartMonitor
    \/ StopMonitor
    \/ TimerFire
    \/ \E n \in 1..MaxPasses : FetchReturn(n)
    \/ \E n \in 1..MaxPasses : NotifyReturn(n)
    \/ \E n \in 1..MaxPasses : SleepReturn(n)

InitSched ==
    /\ Init
    /\ files["eu"] \in {JsonFile(<< >>)} \cup {JsonFile(<<a>>) : a \in FileItems}

SpecSched == InitSched /\ [][SchedNext]_vars

\* The same, every call a pass awaits returning in the end: the remote
\* answers or fails (getItemInfo catches), the webhook call resolves, the
\* pacing timer fires.
SpecSchedFair ==
    /\ SpecSched
    /\ \A n \in 1..MaxPasses :
          /\ WF_vars(FetchReturn(n))
          /\ WF_vars(NotifyReturn(n))
          /\ WF_vars(SleepReturn(n))

\* The item-management entry points while the timer starts passes, the
\* program having found no file at its start: every tracked item is one an
\* entry point added.
AddPassNext ==
    \/ StartBot
    \/ TimerFire
    \/ ItemsNext

SpecAddPass == InitItems /\ [][AddPassNext]_vars

\* Login requests alone, one after the other within fifteen minutes:
\* lastHttp.n counts them.
LoginAttempt(s, username, password) ==
    /\ lastHttp.n < MaxLogins
    /\ LoginHandler(s, username, password)

LoginNext ==
    \E s \in Sessions, u \in Usernames, pw \in Passwords : LoginAttempt(s, u, pw)

\* The HTTP layer with the credentials set or unset; the files found at
\* start play no part.
InitWeb ==
    /\ \E e \in {ConfiguredEnv, UnsetEnv} : Loaded(e)
    /\ files["eu"] = NoFile

SpecWeb == InitWeb /\ [][WebNext]_vars

SpecLogin == InitWeb /\ [][LoginNext]_vars

(***************************************************************************)
(* Properties of the price check, under SpecMonitor.                       *)
(***************************************************************************)
\* The item pass p is at, as the pass listed it when it started.
Current(p) == p.items[p.idx]

\* The record the store holds now for the item pass p is at, or Null.
Stored(ri, p) == getTrackedItem(ri, DefaultRegion, Current(p).id, Current(p).sid)

\* C1: when a pass gets a snapshot for a listed item, it builds an alert and
\* hands it to sendWebhookMessage if and only if the fresh price differs from
\* the price listed at pass start and that listed price is above zero; the
\* alert carries the listed price as old, the fresh price as new, and
\* "increase" when fresh > old, "decrease" otherwise.
C1_ChangeRule ==
    [][\A n \in 1..Len(passes) :
         (passes[n].pc = "fetch" /\ passes'[n].info # Null) =>
            LET old == Current(passes[n]).lastPrice
                fresh == passes'[n].info.lastSoldPrice
                alert == passes'[n].alert
                changed == fresh # old /\ old > 0
            IN  /\ (passes'[n].pc = "notify") <=> changed
                /\ (alert # Null) <=> changed
                /\ ~changed => passes'[n].pc = "sleep"
                /\ changed =>
                     /\ alert.oldPrice = old
                     /\ alert.newPrice = fresh
                     /\ alert.priceChange =
                          (IF fresh > old THEN "increase" ELSE "decrease")]_vars

\* One pass waits for the webhook with an increase from 1 to 2 while another,
\* whose item was listed at price 0, got a price above 0 and raised no alert.
C1_Witness ==
    \E n, m \in 1..Len(passes) :
        /\ passes[n].pc = "notify"
        /\ passes[n].alert.priceChange = "increase"
        /\ passes[n].alert.oldPrice = 1
        /\ passes[n].alert.newPrice = 2
        /\ passes[m].pc = "sleep"
        /\ passes[m].alert = Null
        /\ Current(passes[m]).lastPrice = 0
        /\ passes[m].info.lastSoldPrice > 0

\* C2: when a pass has made its update call for an item whose fetch gave a
\* snapshot, the record the store holds for that item (if it still holds
\* one) has the snapshot's price, stock and sold time, whether or not an
\* alert was raised and whether or not the file write succeeded.
C2_StoreFollowsFetch ==
    [][\A n \in 1..Len(passes) :
         (passes[n].pc # "sleep" /\ passes'[n].pc = "sleep") =>
            LET info == passes'[n].info
                rec == Stored(regionItems', passes'[n])
            IN  /\ info # Null
                /\ rec # Null =>
                     /\ rec.lastPrice = info.lastSoldPrice
                     /\ rec.lastStock = info.currentStock
                     /\ rec.lastSoldTime = info.lastSoldTime]_vars

\* A pass has updated an item whose price did not move (no alert): the
\* stored stock and sold time are the fetched ones, not the listed ones.
C2_Witness ==
    \E n \in 1..Len(passes) :
        /\ passes[n].pc = "sleep"
        /\ passes[n].alert = Null
        /\ Current(passes[n]).lastPrice = passes[n].info.lastSoldPrice
        /\ Stored(regionItems, passes[n]) # Null
        /\ Stored(regionItems, passes[n]).lastStock = passes[n].info.currentStock
        /\ Stored(regionItems, passes[n]).lastStock # Current(passes[n]).lastStock
        /\ Stored(regionItems, passes[n]).lastSoldTime = passes[n].info.lastSoldTime

\* C3: a pass asks the remote for each listed item exactly once, in list
\* order, whatever fails on the way; it moves past an item only after the
\* update call of every item whose fetch gave a snapshot; and it ends (its
\* promise resolves) only after the last listed item.
C3_FailureIsolation ==
    \A n \in 1..Len(passes) :
        LET p == passes[n]
        IN  /\ p.fetches = [i \in 1..p.idx |-> i]
            /\ p.owed \subseteq {p.idx}
            /\ p.pc \in {"fetch", "notify", "sleep", "done"}
            /\ p.pc = "done" => (p.idx = Len(p.items) /\ p.owed = {})
            /\ p.pc = "fetch" => p.owed = {}

\* A pass over two items has ended; its first item's fetch failed (the
\* record still has the stock the file gave it) and its second was updated.
C3_Witness ==
    \E n \in 1..Len(passes) :
        /\ Len(passes) = 1
        /\ passes[n].pc = "done"
        /\ Len(passes[n].items) = 2
        /\ passes[n].fetches = <<1, 2>>
        /\ getTrackedItem(regionItems, DefaultRegion,
                          passes[n].items[1].id, passes[n].items[1].sid)
              = passes[n].items[1]
        /\ getTrackedItem(regionItems, DefaultRegion,
                          passes[n].items[2].id, passes[n].items[2].sid).lastStock = 1

\* C4: when the remote's answer for a listed item holds no entry of the item
\* (network error, HTTP error, a body that is not JSON, null, an empty array
\* or an object of another shape), the pass goes on to the next item (or
\* ends) with no alert handed to sendWebhookMessage and with the store and
\* the files exactly as they were.
C4_FailedFetchSkipsItem ==
    [][\A n \in 1..Len(passes) :
         (/\ passes[n].pc = "fetch"
          /\ passes'[n] # passes[n]
          /\ passes'[n].got = "other") =>
            /\ passes'[n].pc \in {"fetch", "done"}
            /\ passes'[n].alert = Null
            /\ regionItems' = regionItems
            /\ files' = files]_vars

\* C4, for the answers getItemInfo turns into null: the pass goes on to the
\* next item (or ends), nothing is handed to sendWebhookMessage, and the
\* store and the files are exactly as they were.
C4_NullSnapshotSkipsItem ==
    [][\A n \in 1..Len(passes) :
         (/\ passes[n].pc = "fetch"
          /\ passes'[n] # passes[n]
          /\ passes'[n].info = Null) =>
            /\ passes'[n].got = "other"
            /\ passes'[n].pc \in {"fetch", "done"}
            /\ passes'[n].alert = Null
            /\ passes'[n].sent = "none"
            /\ passes'[n].owed = {}
            /\ regionItems' = regionItems
            /\ files' = files]_vars

\* A pass is at its second item after the fetch for its first, listed at a
\* price above zero, gave no snapshot: the record is as the file gave it.
C4_NullSnapshotWitness ==
    \E n \in 1..Len(passes) :
        /\ Len(passes) = 1
        /\ passes[n].pc = "fetch"
        /\ passes[n].idx = 2
        /\ passes[n].got = "other"
        /\ passes[n].items[1].lastPrice > 0
        /\ getTrackedItem(regionItems, DefaultRegion,
                          passes[n].items[1].id, passes[n].items[1].sid)
              = passes[n].items[1]
        /\ files["eu"].kind = "json"

\* C5: the scheduler is either idle or running one pass; at most one pass is
\* in progress at any time.
C5_OnePassAtATime ==
    Cardinality({n \in 1..Len(passes) : passes[n].pc # "done"}) <= 1


(***************************************************************************)
(* Properties of the store and of the entry points built on it.            *)
(***************************************************************************)
\* C6: an add that reaches the store while its pair is tracked does not
\* succeed and leaves the store as it was; checked under SpecItems, where
\* the add entry points test for the pair, await the remote, and then add.
C6_AddOfTrackedPairRejected ==
    [][\A i \in 1..Len(requests) :
         (/\ requests[i].kind = "add"
          /\ requests[i].pc = "fetch"
          /\ requests'[i].pc = "done"
          /\ getTrackedItem(regionItems, NoRegion,
                            requests[i].id, requests[i].sid) # Null) =>
            /\ requests'[i].status # 201
            /\ regionItems' = regionItems]_vars

\* C7: in every state, every region's map holds at most one record per
\* (id, sid) pair, and holds it under that pair's key.
C7_OneRecordPerPair ==
    \A region \in DOMAIN regionItems :
        LET m == regionItems[region]
        IN  \A i, j \in 1..Len(m) :
              /\ m[i].key = getKey(m[i].val.id, m[i].val.sid)
              /\ (m[i].val.id = m[j].val.id /\ m[i].val.sid = m[j].val.sid) => i = j

\* An add has replaced the record of a tracked pair where it stood: the
\* first of two records is newer than the second, and a new key goes last.
C7_Witness ==
    /\ lastCall.op = "add"
    /\ Len(regionItems["eu"]) = 2
    /\ regionItems["eu"][1].val.addedAt = 1
    /\ regionItems["eu"][2].val.addedAt = 0
    /\ regionItems["eu"][1].val = lastCall.ret

\* C8: updateTrackedItem for a pair that is not tracked returns nothing and
\* leaves the store and the files as they were; and no step of a pass adds a
\* key to the store, even when the item it updates was removed after the
\* pass had listed it.
C8_UpdateNeverCreates ==
    [][/\ (/\ lastCall'.n = lastCall.n + 1
           /\ lastCall'.op = "update"
           /\ getTrackedItem(regionItems, lastCall'.region,
                             lastCall'.id, lastCall'.sid) = Null) =>
             /\ lastCall'.ret = Null
             /\ regionItems' = regionItems
             /\ files' = files
       /\ passes' # passes =>
             /\ MapKeys(regionItems'[DefaultRegion]) \subseteq MapKeys(regionItems[DefaultRegion])
             /\ \A n \in 1..Len(passes) :
                   (/\ passes[n].pc # "sleep" /\ passes'[n].pc = "sleep"
                    /\ Stored(regionItems, passes'[n]) = Null) =>
                      /\ regionItems' = regionItems
                      /\ files' = files]_vars

\* A pass has made its update call for an item that was removed after the
\* pass listed it: the store has no record of the item.
C8_Witness ==
    \E n \in 1..Len(passes) :
        /\ passes[n].pc = "sleep"
        /\ passes[n].info # Null
        /\ Stored(regionItems, passes[n]) = Null
        /\ lastCall.op = "remove"
        /\ lastCall.ret = TRUE

\* Whether a remove of (id, sid), or of every variant of id when sid = NoSid,
\* is meant for record rec.
Matches(rec, id, sid) == rec.id = id /\ (sid = NoSid \/ rec.sid = sid)

\* C9: removeTrackedItem(id, sid) takes out the record of exactly that pair;
\* removeTrackedItem(id) takes out every record of that id; every other
\* record and every other region stay as they were, in their order; the result
\* is true iff a record was taken out; and when none was, the store and the
\* files are as they were.
C9_RemoveSemantics ==
    [][(lastCall'.n = lastCall.n + 1 /\ lastCall'.op = "remove") =>
         LET region == lastCall'.region
             before == regionItems[region]
             hit == {i \in 1..Len(before) :
                        Matches(before[i].val, lastCall'.id, lastCall'.sid)}
         IN  /\ regionItems'[region] =
                   SelectSeq(before, LAMBDA e :
                       ~Matches(e.val, lastCall'.id, lastCall'.sid))
             /\ \A r \in DOMAIN regionItems \ {region} :
                   regionItems'[r] = regionItems[r]
             /\ DOMAIN regionItems' = DOMAIN regionItems
             /\ lastCall'.ret = (hit # {})
             /\ hit = {} => (regionItems' = regionItems /\ files' = files)]_vars

\* A remove without a variant has returned true and taken out both variants
\* of item 1, leaving the record of item 2; its file write failed, so the
\* file still lists the three records there were.
C9_Witness ==
    /\ lastCall.op = "remove"
    /\ lastCall.sid = NoSid
    /\ lastCall.id = 1
    /\ lastCall.ret = TRUE
    /\ Len(regionItems["eu"]) = 1
    /\ regionItems["eu"][1].val.id = 2
    /\ files["eu"].kind = "json"
    /\ Len(files["eu"].items) = 3
    /\ Cardinality({i \in 1..3 : files["eu"].items[i].id = 1}) = 2

\* C10: as long as no remove has taken an added pair out, the store's record
\* of the pair has the name, price, stock and sold time that the add handed
\* to addTrackedItem.
C10_AddThenGet ==
    \A i \in 1..Len(requests) :
        (requests[i].kind = "add" /\ requests[i].status = 201
         /\ ~requests[i].touched) =>
            LET given == requests[i].supplied
                rec == getTrackedItem(regionItems, NoRegion, given.id, given.sid)
            IN  /\ rec # Null
                /\ rec.name = given.name
                /\ rec.lastPrice = given.lastPrice
                /\ rec.lastStock = given.lastStock
                /\ rec.lastSoldTime = given.lastSoldTime


\* C11: as long as a pair stays tracked, the addedAt of its record is the
\* one it was created with: no step changes the addedAt of a record whose
\* key is in the store before and after the step.
C11_AddedAtNeverChanges ==
    [][\A region \in DOMAIN regionItems :
         \A i \in 1..Len(regionItems[region]) :
            LET e == regionItems[region][i]
                after == MapGet(regionItems'[region], e.key)
            IN  after # Null => after.addedAt = e.val.addedAt]_vars

\* C11, for the price check and for updateTrackedItem: a step of a pass, or
\* a direct update, changes nothing of a tracked record but its name,
\* lastPrice, lastStock and lastSoldTime.
C11_UpdateKeepsTheRest ==
    [][\A region \in DOMAIN regionItems :
         \A i \in 1..Len(regionItems[region]) :
            LET e == regionItems[region][i]
                after == MapGet(regionItems'[region], e.key)
            IN  after # Null =>
                  /\ after.addedAt = e.val.addedAt
                  /\ after.id = e.val.id
                  /\ after.sid = e.val.sid]_vars

\* C12: when addTrackedItem, removeTrackedItem or updateTrackedItem has
\* changed a region's map and its file write did not fail, the region's file
\* holds exactly the values of the region's map, in the map's order; and a
\* failed write leaves the file as it was.
C12_WriteThrough ==
    [][(lastCall'.n = lastCall.n + 1) =>
         LET region == lastCall'.region
         IN  /\ (regionItems' # regionItems /\ writeFails' = writeFails) =>
                   files'[region] = JsonFile(MapValues(regionItems'[region]))
             /\ writeFails' # writeFails => files' = files
             /\ \A r \in DOMAIN files \ {region} : files'[r] = files[r]]_vars

\* A remove has taken a record out and written the file after an earlier
\* write had failed: the file holds the one record that is left.
C12_Witness ==
    /\ lastCall.n = 2
    /\ lastCall.op = "remove"
    /\ lastCall.ret = TRUE
    /\ writeFails = 1
    /\ Len(regionItems["eu"]) = 1
    /\ files["eu"] = JsonFile(MapValues(regionItems["eu"]))


(***************************************************************************)
(* Properties of the notifier and of the HTTP layer, under SpecWeb.        *)
(***************************************************************************)
\* C13: a call of sendWebhookMessage never rejects: it gives true or false;
\* true exactly when a channel URL is configured and the channel answered
\* with a status of 200..299; false on a transport error, on any other
\* status and when no URL is configured, in which case fetch is not called.
C13_NotifyNeverRaises ==
    [][delivery' # delivery =>
         LET d == delivery'
             success == /\ d.url # ""
                        /\ d.outcome.kind = "status"
                        /\ d.outcome.status >= 200
                        /\ d.outcome.status <= 299
         IN  /\ d.ret \in {"true", "false"}
             /\ (d.ret = "true") <=> success
             /\ d.attempted <=> (d.url # "")
             /\ lastHttp'.status = (IF success THEN 200 ELSE 500)]_vars

\* A test alert met a transport error with the channel configured:
\* sendWebhookMessage gave false and the route answered 500.
C13_Witness ==
    /\ delivery.url # ""
    /\ delivery.outcome.kind = "throw"
    /\ delivery.attempted
    /\ delivery.ret = "false"
    /\ lastHttp.route = "POST /api/test-alert"
    /\ lastHttp.status = 500

\* C20: a request to a protected route by a session that is not
\* authenticated is answered 401 and changes nothing: not the store, not the
\* files, no pass, no add or remove request, no webhook call, no timer, no
\* session.
C20_ProtectedRoutesNeedAuth ==
    [][(/\ lastHttp'.n = lastHttp.n + 1
        /\ lastHttp'.route \in ProtectedRoutes
        /\ ~sessions[lastHttp'.session]) =>
            /\ lastHttp'.status = 401
            /\ UNCHANGED <<regionItems, files, monitorInterval, botStarted, passes,
                           requests, clock, writeFails, lastCall, timers, sessions,
                           delivery, env>>]_vars

\* While session 1 is logged in, a POST /api/check-prices by session 2,
\* which is not, has been answered 401.
C20_Witness ==
    /\ sessions[1]
    /\ ~sessions[2]
    /\ lastHttp.route = "POST /api/check-prices"
    /\ lastHttp.session = 2
    /\ lastHttp.status = 401
    /\ botStarted


\* C14: a notification is never re-sent: a pass hands an alert to
\* sendWebhookMessage only when the price it fetched differs from the
\* baseline the store holds for the item at that moment.
C14_NoResend ==
    [][\A n \in 1..Len(passes) :
         (passes[n].pc = "fetch" /\ passes'[n].pc = "notify"
            /\ Stored(regionItems, passes[n]) # Null)
         => passes'[n].alert.newPrice # Stored(regionItems, passes[n]).lastPrice]_vars

\* What holds of C14 in every interleaving: the pass looks at no result of
\* sendWebhookMessage; whether it gave true or false, the next step of the
\* pass is the update, which leaves a still tracked item with the fetched
\* price, and the pass never calls sendWebhookMessage for the item again.
C14_OneAttemptThenUpdate ==
    [][\A n \in 1..Len(passes) :
         passes[n].pc = "notify" /\ passes'[n] # passes[n]
         => /\ passes'[n].pc = "sleep"
            /\ passes'[n].idx = passes[n].idx
            /\ passes'[n].sent \in {"true", "false"}
            /\ Stored(regionItems, passes[n]) # Null
                => Stored(regionItems', passes[n]).lastPrice
                      = passes[n].info.lastSoldPrice]_vars

\* A delivery failed and the store holds the fetched price all the same.
C14_FailedDeliveryWitness ==
    \E n \in 1..Len(passes) :
        /\ passes[n].pc = "sleep"
        /\ passes[n].sent = "false"
        /\ Stored(regionItems, passes[n]) # Null
        /\ Stored(regionItems, passes[n]).lastPrice = passes[n].info.lastSoldPrice
        /\ passes[n].alert.oldPrice # passes[n].info.lastSoldPrice


\* C15: the interval timer is armed only after the pass that
\* startPriceMonitor began has completed: whenever a timer is armed, the
\* start-up pass is done.
C15_ArmedOnlyAfterStartPass ==
    timers > 0 => (Len(passes) > 0 /\ passes[1].pc = "done")


(***************************************************************************)
(* Properties of the scheduler under direct calls, under SpecSched and     *)
(* SpecSchedFair.                                                          *)
(***************************************************************************)
\* C16: a call of stopPriceMonitor that disarms the timer leaves every pass
\* as it is, and, the calls a pass awaits returning in the end, every pass
\* that has started ends having asked the remote for each item it listed.
C16_PassRunsToCompletion ==
    /\ [][(monitorInterval /\ ~monitorInterval') => passes' = passes]_vars
    /\ \A n \in 1..MaxPasses :
          (Len(passes) >= n) ~>
             (/\ Len(passes) >= n
              /\ passes[n].pc = "done"
              /\ Len(passes[n].fetches) = Len(passes[n].items))

\* stopPriceMonitor was called after the only pass had started and before
\* it has ended: the timer is disarmed and the pass is still under way.
C16_Witness ==
    /\ Len(passes) = 1
    /\ ~monitorInterval
    /\ timers = 0
    /\ passes[1].pc = "sleep"

\* C17: once stopPriceMonitor has returned, and until startPriceMonitor is
\* called again, no interval timer is armed, whatever calls came before.
C17_StopDisarms ==
    ~monitorInterval => timers = 0


\* C18: when getItemInfo gives an add nothing, the add answers 404 (item
\* not found) and the store and its files stay as they are; when it gives a
\* snapshot, the add answers 201 and the store then holds, under the
\* remote's id and the requested sid, a record whose name, lastPrice,
\* lastStock and lastSoldTime are the snapshot's.
C18_AddNeedsFetch ==
    [][\A i \in 1..Len(requests) :
         (requests[i].kind = "add" /\ requests[i].pc = "fetch"
            /\ requests'[i].pc = "done")
         => LET q == requests'[i]
                rec == getTrackedItem(regionItems', NoRegion, q.fetched.id, q.sid)
            IN  IF q.fetched = Null
                THEN /\ q.status = 404
                     /\ UNCHANGED <<regionItems, files>>
                ELSE /\ q.status = 201
                     /\ rec # Null
                     /\ rec.name = q.fetched.name
                     /\ rec.lastPrice = q.fetched.lastSoldPrice
                     /\ rec.lastStock = q.fetched.currentStock
                     /\ rec.lastSoldTime = q.fetched.lastSoldTime]_vars

\* One add got nothing from the remote and was answered 404; another got a
\* snapshot with a price and a stock, and the store holds them.
C18_Witness ==
    /\ Len(requests) = 2
    /\ requests[1].kind = "add" /\ requests[1].status = 404
    /\ requests[2].kind = "add" /\ requests[2].status = 201
    /\ requests[2].fetched # Null
    /\ requests[2].fetched.lastSoldPrice = MaxPrice
    /\ requests[2].fetched.currentStock = MaxStock
    /\ getTrackedItems(regionItems, NoRegion) =
          <<[id |-> requests[2].id, sid |-> requests[2].sid,
             name |-> requests[2].fetched.name, lastPrice |-> MaxPrice,
             lastStock |-> MaxStock,
             lastSoldTime |-> requests[2].fetched.lastSoldTime,
             addedAt |-> clock]>>


\* C19: tracked items survive a restart: as long as no write has failed, a
\* new FileStorage over the files as they stand lists, for every region the
\* running store holds, the records the running store lists.
C19_SurvivesRestart ==
    writeFails = 0 =>
        \A r \in DOMAIN regionItems :
            getTrackedItems(loadAllRegions(files), r) = getTrackedItems(regionItems, r)

\* What holds of C19 for the two regions the constructor loads, under direct
\* calls of the store: as long as no write has failed, loading a region's
\* file gives the region's map, keys, values and order.
C19_LoadedRegionsRoundTrip ==
    writeFails = 0 =>
        \A i \in 1..Len(LoadedRegions) :
            loadFromFile(files[LoadedRegions[i]]) = regionItems[LoadedRegions[i]]

\* A direct add has written region "eu": its file holds a record with a
\* time of a later clock reading than the start.
C19_RoundTripWitness ==
    /\ writeFails = 0
    /\ lastCall.op = "add"
    /\ \E k \in 1..Len(regionItems["eu"]) : regionItems["eu"][k].val.addedAt = MaxClock
    /\ Len(regionItems["eu"]) = 2


\* C21: a session becomes authenticated only by a login request whose
\* username and password are the configured BOT_USERNAME and BOT_PASSWORD,
\* whether the secrets are set or not.
C21_LoginProtection ==
    [][\A s \in Sessions :
         (~sessions[s] /\ sessions'[s])
         => /\ lastHttp'.route = "POST /api/auth/login"
            /\ lastHttp'.session = s
            /\ lastHttp'.username = env.username
            /\ lastHttp'.password = env.password]_vars

\* What holds of C21: a session becomes authenticated only by a login
\* request of that session, answered 200, whose username and password,
\* white space trimmed off both ends, are VALID_USERNAME and VALID_PASSWORD,
\* the empty string standing for an unset secret.
C21_OnlyTrimmedMatch ==
    [][\A s \in Sessions :
         (~sessions[s] /\ sessions'[s])
         => /\ lastHttp'.route = "POST /api/auth/login"
            /\ lastHttp'.session = s
            /\ lastHttp'.status = 200
            /\ Trim(lastHttp'.username) = env.username
            /\ Trim(lastHttp'.password) = env.password]_vars

\* With the secrets unset, a login of blanks has authenticated a session.
C21_BlankLoginWitness ==
    /\ env = UnsetEnv
    /\ lastHttp.route = "POST /api/auth/login"
    /\ lastHttp.username = <<" ">>
    /\ lastHttp.password = <<" ">>
    /\ lastHttp.status = 200
    /\ sessions[lastHttp.session]


\* The documented limit (replit.md: 5 attempts per 15 minutes).
LoginLimit == 5

\* C22: once LoginLimit login attempts have been made within the window,
\* a further login attempt is rejected (429 Too Many Requests): it is
\* neither handled nor does it authenticate the session.
C22_LoginRateLimited ==
    (lastHttp.route = "POST /api/auth/login" /\ lastHttp.n > LoginLimit)
    => lastHttp.status = 429

\* After five failed logins the sixth, with the right credentials, was
\* handled and has authenticated the session.
C22_SixthLoginWitness ==
    /\ lastHttp.n = LoginLimit + 1
    /\ lastHttp.status = 200
    /\ env = ConfiguredEnv
    /\ sessions[lastHttp.session]
    /\ \A s \in Sessions : s # lastHttp.session => ~sessions[s]


\* C23: the steps of a pass for one item come in order: the alert goes to
\* sendWebhookMessage only once getItemInfo has given the snapshot; the
\* update is called only once the fetch has given the snapshot and, if there
\* is an alert, sendWebhookMessage has come back, true or false; and the
\* pass turns to the next item, or ends, only with no update outstanding.
C23_StepOrder ==
    [][\A n \in 1..Len(passes) :
         LET p == passes[n]
             q == passes'[n]
         IN  /\ (p.pc = "fetch" /\ q.pc = "notify")
                   => q.idx = p.idx /\ q.info # Null /\ q.alert # Null
                      /\ q.sent = "none" /\ p.idx \in q.owed
                      /\ UNCHANGED <<regionItems, files>>
             /\ (q.idx = p.idx /\ q.pc = "sleep" /\ p.pc # "sleep")
                   => /\ p.pc \in {"fetch", "notify"}
                      /\ q.info # Null
                      /\ q.owed = {}
                      /\ (q.alert # Null) <=> (p.pc = "notify")
                      /\ (q.alert # Null) => q.sent \in {"true", "false"}
                      /\ Stored(regionItems, p) # Null
                            => Stored(regionItems', p) =
                                 [Stored(regionItems, p) EXCEPT
                                    !.name = PassUpdates(Current(p), q.info).name,
                                    !.lastPrice = q.info.lastSoldPrice,
                                    !.lastStock = q.info.currentStock,
                                    !.lastSoldTime = q.info.lastSoldTime]
             /\ (q.idx # p.idx \/ (q.pc = "done" /\ p.pc # "done"))
                   => /\ p.owed = {} /\ q.owed = {}
                      /\ p.pc \in {"fetch", "sleep"}
                      /\ p.pc = "fetch" => q.got # "none"]_vars

\* A pass over two items is asking the remote for the second; the first
\* had a price change, and the store already holds its new price.
C23_Witness ==
    \E n \in 1..Len(passes) :
        /\ Len(passes[n].items) = 2
        /\ passes[n].idx = 2
        /\ passes[n].pc = "fetch"
        /\ passes[n].owed = {}
        /\ passes[n].items[1].lastPrice > 0
        /\ Len(passes) = 1
        /\ LET rec == getTrackedItem(regionItems, DefaultRegion,
                                     passes[n].items[1].id, passes[n].items[1].sid)
           IN  rec # Null /\ rec.lastPrice # passes[n].items[1].lastPrice


\* C24: within a pass, the fetch of the next item begins only out of the
\* pacing sleep after the item before it, whatever became of that item.
C24_PacedFetches ==
    [][\A n \in 1..Len(passes) :
         passes'[n].idx # passes[n].idx => passes[n].pc = "sleep"]_vars

\* What holds of C24: the fetch of the next item begins without a pacing
\* sleep only when getItemInfo gave nothing for the item before it; after an
\* item that got its snapshot, the next fetch comes out of the sleep.
C24_PacedAfterSnapshot ==
    [][\A n \in 1..Len(passes) :
         (passes'[n].idx # passes[n].idx /\ passes[n].pc # "sleep")
         => /\ passes[n].pc = "fetch"
            /\ passes[n].info = Null
            /\ passes[n].owed = {}
            /\ UNCHANGED <<regionItems, files>>]_vars

\* The remote gave nothing for the first of two items, and the pass asked
\* for the second at once.
C24_UnpacedWitness ==
    \E n \in 1..Len(passes) :
        /\ passes[n].fetches = <<1, 2>>
        /\ passes[n].idx = 2
        /\ passes[n].pc = "fetch"
        /\ passes[n].got = "other"
        /\ Len(passes) = 1
        /\ regionItems = loadAllRegions(files)


\* C25: a pass lists the records as the store holds them when it starts.
\* When it fetches price 0 for an item it listed with price p > 0, it hands
\* one decrease alert from p to 0 to sendWebhookMessage and then leaves the
\* store with price 0.  When it fetches any price q for an item it listed
\* with price 0, as the next pass does and as a pass does for an item that
\* came with a zero baseline, it makes no alert and leaves the store with q.
C25_ZeroBaseline ==
    [][\A n \in 1..Len(passes') :
         IF n > Len(passes)
         THEN passes'[n].items = getTrackedItems(regionItems, DefaultRegion)
         ELSE LET p == passes[n]
                  q == passes'[n]
                  tracked == Stored(regionItems, p) # Null
              IN  /\ (p.pc = "fetch" /\ q.info # Null /\ q.idx = p.idx
                        /\ Current(p).lastPrice > 0 /\ q.info.lastSoldPrice = 0)
                     => /\ q.pc = "notify"
                        /\ q.alert # Null
                        /\ q.alert.oldPrice = Current(p).lastPrice
                        /\ q.alert.newPrice = 0
                        /\ q.alert.priceChange = "decrease"
                  /\ (p.pc = "notify" /\ q # p)
                     => /\ q.pc = "sleep"
                        /\ tracked =>
                              Stored(regionItems', p).lastPrice = p.alert.newPrice
                  /\ (p.pc = "fetch" /\ q.info # Null /\ q.idx = p.idx
                        /\ Current(p).lastPrice = 0)
                     => /\ q.pc = "sleep"
                        /\ q.alert = Null
                        /\ tracked =>
                              Stored(regionItems', p).lastPrice = q.info.lastSoldPrice]_vars

\* The start-up pass listed the item at price 1, fetched 0, sent the
\* decrease alert and stored 0; the next pass listed it at 0, fetched the
\* highest price, made no alert and stored that price.
C25_Witness ==
    /\ Len(passes) = 2
    /\ Len(passes[1].items) = 1
    /\ passes[1].items[1].lastPrice = 1
    /\ passes[1].pc = "sleep"
    /\ passes[1].alert # Null
    /\ passes[1].alert.newPrice = 0
    /\ passes[1].alert.priceChange = "decrease"
    /\ passes[2].items[1].lastPrice = 0
    /\ passes[2].pc = "sleep"
    /\ passes[2].alert = Null
    /\ passes[2].info.lastSoldPrice = MaxPrice
    /\ Stored(regionItems, passes[2]).lastPrice = MaxPrice


\* C26: the snapshot getItemInfo gives a pass for a listed item is that of
\* the requested variant: it never carries another variant's entry.
C26_RequestedVariantOnly ==
    \A n \in 1..Len(passes) :
        passes[n].info # Null => passes[n].info.sid = Current(passes[n]).sid

\* The remote's answer held variant 0 only; the pass took its price for the
\* listed variant 1 and the store now holds it as the price of variant 1.
C26_OtherVariantWitness ==
    \E n \in 1..Len(passes) :
        /\ passes[n].pc = "sleep"
        /\ Current(passes[n]).sid = 1
        /\ passes[n].info.sid = 0
        /\ passes[n].info.lastSoldPrice = MaxPrice
        /\ Stored(regionItems, passes[n]) # Null
        /\ Stored(regionItems, passes[n]).sid = 1
        /\ Stored(regionItems, passes[n]).lastPrice = MaxPrice


\* C27: one change of an item's price from p > 0 to q is notified at most
\* once: no two passes hand sendWebhookMessage an alert for the same item
\* with the same old and new price.
C27_NoDoubleNotification ==
    \A n, m \in 1..Len(passes) :
        (/\ n < m
         /\ passes[n].pc \in {"notify", "sleep"} /\ passes[n].alert # Null
         /\ passes[m].pc \in {"notify", "sleep"} /\ passes[m].alert # Null)
        => passes[n].alert # passes[m].alert

\* The start-up pass and a manual pass beside it have both delivered the
\* same alert.
C27_DoubleWitness ==
    /\ Len(passes) = 2
    /\ passes[2].trigger = "manual"
    /\ passes[1].pc = "sleep" /\ passes[1].sent = "true"
    /\ passes[2].pc = "sleep" /\ passes[2].sent = "true"
    /\ passes[1].alert # Null
    /\ passes[1].alert = passes[2].alert
    /\ passes[1].alert.oldPrice = 1
    /\ passes[1].alert.newPrice = MaxPrice


\* C28: of two add requests for the same pair, with no remove of the pair
\* between them, at most one is answered 201 (created), and the record the
\* first created is the record the store holds.
C28_OneAddWins ==
    \A i, j \in 1..Len(requests) :
        (/\ i # j
         /\ requests[i].kind = "add" /\ requests[j].kind = "add"
         /\ requests[i].id = requests[j].id /\ requests[i].sid = requests[j].sid
         /\ requests[i].status = 201
         /\ ~requests[i].touched /\ ~requests[j].touched)
        => requests[j].status # 201

\* Two adds of the same pair were both answered 201; the second one's
\* record, with a later addedAt and another price, has replaced the first.
C28_OverwriteWitness ==
    /\ Len(requests) = 2
    /\ requests[1].kind = "add" /\ requests[2].kind = "add"
    /\ requests[1].id = requests[2].id /\ requests[1].sid = requests[2].sid
    /\ requests[1].status = 201 /\ requests[2].status = 201
    /\ requests[1].supplied.lastPrice = 1
    /\ requests[2].supplied.lastPrice = MaxPrice
    /\ Len(regionItems[NoRegion]) = 1
    /\ regionItems[NoRegion][1].val.lastPrice = MaxPrice
    /\ regionItems[NoRegion][1].val.addedAt = MaxClock


\* C29: a pass that starts lists every item an add has created (answered
\* 201) and no remove has taken out since.
C29_AddedItemsAreChecked ==
    [][Len(passes') > Len(passes) =>
         \A i \in 1..Len(requests) :
            (requests[i].kind = "add" /\ requests[i].status = 201
               /\ ~requests[i].touched)
            => \E k \in 1..Len(passes'[Len(passes')].items) :
                  /\ passes'[Len(passes')].items[k].id = requests[i].supplied.id
                  /\ passes'[Len(passes')].items[k].sid = requests[i].supplied.sid]_vars

\* An add was answered 201 and the store lists its item for the entry
\* points; the timer's pass that started afterwards found nothing to check.
C29_NeverCheckedWitness ==
    /\ Len(requests) = 1
    /\ requests[1].status = 201
    /\ getTrackedItem(regionItems, NoRegion, requests[1].supplied.id,
                      requests[1].supplied.sid) # Null
    /\ Len(passes) = 2
    /\ passes[1].items = << >>
    /\ passes[2].trigger = "timer"
    /\ passes[2].items = << >>
    /\ passes[2].pc = "done"


\* C30: once removeTrackedItem has returned true for an item, no pass hands
\* sendWebhookMessage an alert for it: a pass turns to notifying only for
\* an item the store still tracks.
C30_NoAlertAfterRemove ==
    [][\A n \in 1..Len(passes) :
         (passes[n].pc = "fetch" /\ passes'[n].pc = "notify")
         => Stored(regionItems, passes[n]) # Null]_vars

\* The item was removed while the pass that listed it awaited the remote;
\* the pass has sent its alert all the same, and the item stays removed.
C30_AlertAfterRemoveWitness ==
    /\ Len(passes) = 1
    /\ passes[1].pc = "sleep"
    /\ passes[1].alert # Null
    /\ passes[1].sent = "true"
    /\ lastCall.op = "remove"
    /\ lastCall.ret = TRUE
    /\ lastCall.id = Current(passes[1]).id
    /\ Stored(regionItems, passes[1]) = Null

=============================================================================
